---- MODULE Spec2Model ----
(***************************************************************************)
(* Registry Synchronization & Import Engine of the DIN portal              *)
(* (src/pages/AdminPortal.tsx: the AdminPortal CSV import and the App      *)
(* persistence coordinator).                                               *)
(*                                                                         *)
(* Text is modelled as a sequence of one-character strings, so that the    *)
(* parser, the header resolver and the identity / numeric normalizers are  *)
(* computed character by character as the code computes them.              *)
(***************************************************************************)
EXTENDS Integers, Sequences, FiniteSets, TLC

(***************************************************************************)
(* Bounds of the model                                                     *)
(***************************************************************************)
MaxRows == 2      \* data lines of an import file
MaxOps == 2       \* handler invocations in one behaviour
MaxClock == 1     \* values Date.now() advances through

(***************************************************************************)
(* Character helpers                                                       *)
(***************************************************************************)
Range(s) == {s[i] : i \in 1..Len(s)}

Digits == {"0", "1", "2", "3", "4", "5", "6", "7", "8", "9"}

WhiteSpace == {" ", "\t"}

\* String.prototype.toLowerCase on the letters the model's files use
toLowerCase(c) ==
  CASE c = "A" -> "a" [] c = "B" -> "b" [] c = "C" -> "c" [] c = "D" -> "d"
    [] c = "I" -> "i" [] c = "K" -> "k" [] c = "L" -> "l" [] c = "N" -> "n"
    [] c = "O" -> "o" [] c = "P" -> "p" [] c = "R" -> "r" [] c = "S" -> "s"
    [] c = "T" -> "t" [] c = "U" -> "u" [] c = "X" -> "x"
    [] OTHER -> c

\* String.prototype.toUpperCase on the letters the model's files use
toUpperCase(c) ==
  CASE c = "n" -> "N" [] c = "u" -> "U" [] c = "l" -> "L" [] c = "x" -> "X"
    [] c = "a" -> "A" [] c = "i" -> "I" [] c = "k" -> "K" [] c = "h" -> "H"
    [] OTHER -> c

Lower(s) == [i \in 1..Len(s) |-> toLowerCase(s[i])]

Upper(s) == [i \in 1..Len(s) |-> toUpperCase(s[i])]

RECURSIVE trimStart(_)
trimStart(s) ==
  IF s # <<>> /\ Head(s) \in WhiteSpace THEN trimStart(Tail(s)) ELSE s

RECURSIVE trimEnd(_)
trimEnd(s) ==
  IF s # <<>> /\ s[Len(s)] \in WhiteSpace
  THEN trimEnd(SubSeq(s, 1, Len(s) - 1)) ELSE s

\* String.prototype.trim
trim(s) == trimEnd(trimStart(s))

IsDigitOrX(c) == c \in Digits \cup {"X"}

\* s.replace(/[^0-9X]/g, '') : the normalized identity
normCNICof(s) == SelectSeq(s, IsDigitOrX)

(***************************************************************************)
(* Row Parser                                                              *)
(***************************************************************************)
RECURSIVE csvScan(_, _, _, _, _)
csvScan(line, i, columns, cur, inQ) ==
  IF i > Len(line) THEN Append(columns, trim(cur))
  ELSE IF line[i] = "\"" THEN csvScan(line, i + 1, columns, cur, ~inQ)
  ELSE IF line[i] = "," /\ ~inQ
       THEN csvScan(line, i + 1, Append(columns, trim(cur)), <<>>, inQ)
  ELSE csvScan(line, i + 1, columns, Append(cur, line[i]), inQ)

parseCSVLine(line) == csvScan(line, 1, <<>>, <<>>, FALSE)

(***************************************************************************)
(* Column Resolver                                                         *)
(***************************************************************************)
\* Array.prototype.indexOf, 1-based, 0 when absent
indexOf(arr, x) ==
  IF \E i \in 1..Len(arr) : arr[i] = x
  THEN CHOOSE i \in 1..Len(arr) :
         arr[i] = x /\ \A j \in 1..(i - 1) : arr[j] # x
  ELSE 0

RECURSIVE getIdxFrom(_, _, _)
getIdxFrom(normH, names, k) ==
  IF k > Len(names) THEN 0
  ELSE IF indexOf(normH, Lower(names[k])) # 0
       THEN indexOf(normH, Lower(names[k]))
  ELSE getIdxFrom(normH, names, k + 1)

getIdx(normH, names) == getIdxFrom(normH, names, 1)

\* col(arr, names); undefined is the empty text (every use coalesces with ||)
col(normH, arr, names) ==
  LET i == getIdx(normH, names)
  IN IF i # 0 /\ i <= Len(arr) THEN trim(arr[i]) ELSE <<>>

\* the alias lists of the logical fields
CnicNames == << <<"o", "c", "n", "i", "c">>, <<"c", "n", "i", "c">>,
                <<"u", "_", "o", "c", "n", "i", "c">> >>

ItemNames == << <<"i", "t", "e", "m", "c", "o", "d", "e">>,
                <<"i", "t", "e", "m", "_", "c", "o", "d", "e">>,
                <<"u", "_", "i", "t", "e", "m", "c", "o", "d", "e">> >>

NameNames == << <<"o", "n", "a", "m", "e">>,
                <<"o", "w", "n", "e", "r", "n", "a", "m", "e">>,
                <<"n", "a", "m", "e">> >>

PhoneNames == << <<"o", "c", "e", "l", "l">>, <<"c", "e", "l", "l", "n", "o">> >>

DocTotalNames == << <<"d", "o", "c", "t", "o", "t", "a", "l">> >>

PaidNames == << <<"r", "e", "c", "o", "n", "s", "u", "m">>, <<"p", "a", "i", "d">> >>

BalNames == << <<"b", "a", "l", "d", "u", "e", "d", "e", "b">>,
               <<"b", "a", "l", "a", "n", "c", "e">> >>

(***************************************************************************)
(* Value Normalizer                                                        *)
(***************************************************************************)
DigitVal(c) ==
  CASE c = "0" -> 0 [] c = "1" -> 1 [] c = "2" -> 2 [] c = "3" -> 3
    [] c = "4" -> 4 [] c = "5" -> 5 [] c = "6" -> 6 [] c = "7" -> 7
    [] c = "8" -> 8 [] c = "9" -> 9

RECURSIVE leadingDigits(_, _, _)
leadingDigits(s, i, acc) ==
  IF i <= Len(s) /\ s[i] \in Digits
  THEN leadingDigits(s, i + 1, 10 * acc + DigitVal(s[i]))
  ELSE acc

\* parseFloat(s) || 0 on texts without a fraction or an exponent: leading
\* white space, an optional sign, then the longest run of digits; NaN gives 0
parseFloatOr0(s) ==
  LET t == trimStart(s)
      neg == t # <<>> /\ Head(t) = "-"
      u == IF t # <<>> /\ Head(t) \in {"-", "+"} THEN Tail(t) ELSE t
      n == leadingDigits(u, 1, 0)
  IN IF neg THEN 0 - n ELSE n

IsNotSeparator(c) == c \notin {",", "(", ")"}

parseVal(v) ==
  IF v = <<>> \/ Upper(v) = <<"N", "U", "L", "L">> \/ v = <<"-">> THEN 0
  ELSE parseFloatOr0(SelectSeq(v, IsNotSeparator))

(***************************************************************************)
(* Insertion-ordered maps (JavaScript Map) as sequences of key/value pairs *)
(***************************************************************************)
mapHas(m, k) == \E i \in 1..Len(m) : m[i].k = k

mapIdx(m, k) == CHOOSE i \in 1..Len(m) : m[i].k = k

mapGet(m, k) == m[mapIdx(m, k)].v

\* Map.prototype.set: an existing key keeps its position
mapSet(m, k, v) ==
  IF mapHas(m, k) THEN [m EXCEPT ![mapIdx(m, k)] = [k |-> k, v |-> v]]
  ELSE Append(m, [k |-> k, v |-> v])

\* Array.from(map.values())
mapValues(m) == [i \in 1..Len(m) |-> m[i].v]

(***************************************************************************)
(* Entity Builder (handleMasterSync, the fold over the data lines).        *)
(* Of a PropertyFile the model keeps the key, the valuation, the owner     *)
(* fields, the two aggregates and the transactions; of a Transaction the   *)
(* sequence number, the identifier, the account code and the amounts. The  *)
(* remaining fields are constants or further col() lookups with a default. *)
(***************************************************************************)
orElse(v, dflt) == IF v = <<>> THEN dflt ELSE v

newUser(normH, cols, rawCNIC, normCNIC) ==
  [id |-> <<"user-">> \o normCNIC,
   cnic |-> rawCNIC,
   name |-> orElse(col(normH, cols, NameNames), <<"SAP Member">>),
   email |-> normCNIC \o <<"@dinproperties.com.pk">>,
   phone |-> orElse(col(normH, cols, PhoneNames), <<"-">>),
   role |-> "CLIENT", status |-> "Active", password |-> "password123"]

newFile(normH, cols, rawCNIC, itemCode, ownerName) ==
  [fileNo |-> itemCode,
   plotValue |-> parseVal(col(normH, cols, DocTotalNames)),
   balance |-> 0, paymentReceived |-> 0,
   ownerName |-> ownerName, ownerCNIC |-> rawCNIC,
   transactions |-> <<>>]

\* newTransaction with the sequence number taken from the clock as well
newTransactionClockSeq(idx, now, itemCode, prop, paidVal, osVal) ==
  [seq |-> now + idx, transid |-> now + idx, shortname |-> itemCode,
   doctotal |-> prop.plotValue, balduedeb |-> osVal, amount_paid |-> paidVal]

newTransaction(idx, now, itemCode, prop, paidVal, osVal) ==
  [seq |-> idx, transid |-> now + idx, shortname |-> itemCode,
   doctotal |-> prop.plotValue, balduedeb |-> osVal, amount_paid |-> paidVal]

\* withUser without the has() test: every keyed line adds a member
withUserAlways(userMap, normCNIC, u) ==
  Append(userMap, [k |-> normCNIC, v |-> u])

\* userMap after the `if (!userMap.has(normCNIC))` block
withUser(userMap, normCNIC, u) ==
  IF ~mapHas(userMap, normCNIC) THEN mapSet(userMap, normCNIC, u) ELSE userMap

\* fileMap after the `if (!fileMap.has(itemCode))` block
withFile(fileMap, itemCode, f) ==
  IF ~mapHas(fileMap, itemCode) THEN mapSet(fileMap, itemCode, f) ELSE fileMap

\* addRow with = in place of += : the aggregates are the last line's amounts
addRowSnapshot(prop, paidVal, osVal, tx) ==
  [prop EXCEPT !.paymentReceived = paidVal,
               !.balance = osVal,
               !.transactions = Append(@, tx)]

\* prop after the two += and the push
addRow(prop, paidVal, osVal, tx) ==
  [prop EXCEPT !.paymentReceived = @ + paidVal,
               !.balance = @ + osVal,
               !.transactions = Append(@, tx)]

\* the rows that pass `if (!normCNIC || !itemCode) return`
rowAccepted(normCNIC, itemCode) == normCNIC # <<>> /\ itemCode # <<>>

\* one call of the forEach callback; idx is the 0-based position of the line
buildRow(normH, line, idx, now, maps) ==
  LET cols == parseCSVLine(line)
      rawCNIC == col(normH, cols, CnicNames)
      normCNIC == normCNICof(rawCNIC)
      itemCode == col(normH, cols, ItemNames)
  IN IF ~rowAccepted(normCNIC, itemCode) THEN maps
     ELSE LET userMap == withUser(maps.userMap, normCNIC,
                                  newUser(normH, cols, rawCNIC, normCNIC))
              fileMap == withFile(maps.fileMap, itemCode,
                           newFile(normH, cols, rawCNIC, itemCode,
                                   mapGet(userMap, normCNIC).name))
              prop == mapGet(fileMap, itemCode)
              paidVal == parseVal(col(normH, cols, PaidNames))
              osVal == parseVal(col(normH, cols, BalNames))
              tx == newTransaction(idx, now, itemCode, prop, paidVal, osVal)
          IN [userMap |-> userMap,
              fileMap |-> mapSet(fileMap, itemCode,
                                 addRow(prop, paidVal, osVal, tx))]

RECURSIVE buildRows(_, _, _, _, _)
buildRows(normH, lines, k, now, maps) ==
  IF k > Len(lines) THEN maps
  ELSE buildRows(normH, lines, k + 1, now,
                 buildRow(normH, lines[k], k - 2, now, maps))

IsNotBlank(l) == trim(l) # <<>>

\* text.split(/\r?\n/).filter(l => l.trim() !== '')
nonEmptyLines(text) == SelectSeq(text, IsNotBlank)

\* the guard `if (lines.length < 2) throw new Error("Format")`
formatThrows(lines) == Len(lines) < 2

\* normH: rawHeaders.map(h => h.trim().toLowerCase())
normHeaders(line) ==
  LET rawHeaders == parseCSVLine(line)
  IN [i \in 1..Len(rawHeaders) |-> Lower(trim(rawHeaders[i]))]

\* the try block of reader.onload up to the call of onImportFullDatabase:
\* ok is FALSE when it throws
parseRegistry(text, now) ==
  LET lines == nonEmptyLines(text)
  IN IF formatThrows(lines) THEN [ok |-> FALSE, users |-> <<>>, files |-> <<>>]
     ELSE LET normH == normHeaders(lines[1])
              maps == buildRows(normH, lines, 2, now,
                                [userMap |-> <<>>, fileMap |-> <<>>])
          IN [ok |-> TRUE,
              users |-> mapValues(maps.userMap),
              files |-> mapValues(maps.fileMap)]

(***************************************************************************)
(* Import files: a header line and up to MaxRows further lines             *)
(***************************************************************************)
\* the header of the SAP export
HeaderSap ==
  <<"O", "C", "N", "I", "C", ",", "O", "N", "a", "m", "e", ",", "I", "t",
    "e", "m", "C", "o", "d", "e", ",", "D", "o", "c", "T", "o", "t", "a",
    "l", ",", "R", "e", "c", "o", "n", "S", "u", "m", ",", "B", "a", "l",
    "D", "u", "e", "D", "e", "b">>

\* other aliases, other case, padded
HeaderAlias ==
  <<" ", "c", "n", "i", "c", " ", ",", "N", "a", "m", "e", ",", "I", "t",
    "e", "m", "_", "C", "o", "d", "e", ",", "D", "o", "c", "T", "o", "t",
    "a", "l", ",", "P", "a", "i", "d", ",", "B", "a", "l", "a", "n", "c",
    "e">>

\* no identity column
HeaderNoCnic ==
  <<"R", "e", "f", ",", "O", "N", "a", "m", "e", ",", "I", "t", "e", "m",
    "C", "o", "d", "e", ",", "D", "o", "c", "T", "o", "t", "a", "l", ",",
    "R", "e", "c", "o", "n", "S", "u", "m", ",", "B", "a", "l", "D", "u",
    "e", "D", "e", "b">>

\* no account-code column
HeaderNoItem ==
  <<"O", "C", "N", "I", "C", ",", "O", "N", "a", "m", "e", ",", "P", "l",
    "o", "t", ",", "D", "o", "c", "T", "o", "t", "a", "l", ",", "R", "e",
    "c", "o", "n", "S", "u", "m", ",", "B", "a", "l", "D", "u", "e", "D",
    "e", "b">>

\* identity A, account P-001
LineA1 ==
  <<"1", "2", "3", "4", "5", "-", "6", "7", "8", "9", "0", "1", "2", "-",
    "3", ",", "A", "l", "i", ",", "P", "-", "0", "0", "1", ",", "9", "0",
    "0", "0", ",", "1", "0", "0", "0", ",", "2", "0", "0">>

\* identity A, account P-001 again
LineA2 ==
  <<"1", "2", "3", "4", "5", "-", "6", "7", "8", "9", "0", "1", "2", "-",
    "3", ",", "A", "l", "i", ",", "P", "-", "0", "0", "1", ",", "9", "0",
    "0", "0", ",", "5", "0", "0", ",", "1", "0", "0">>

\* identity A unformatted, account P-002
LineA3 ==
  <<"1", "2", "3", "4", "5", "6", "7", "8", "9", "0", "1", "2", "3", ",",
    "A", "l", "i", ",", "P", "-", "0", "0", "2", ",", "\"", "1", ",", "2",
    "0", "0", "\"", ",", "(", "5", "0", "0", ")", ",", "N", "U", "L", "L">>

\* identity B, account P-001
LineB1 ==
  <<"3", "X", ",", "\"", "K", "h", "a", "n", ",", " ", "B", "\"", ",", "P",
    "-", "0", "0", "1", ",", "-", ",", "5", "0", ",", "x">>

\* identity normalizes to the empty text
LineNoCnic ==
  <<"-", "-", ",", "A", "l", "i", ",", "P", "-", "0", "0", "1", ",", "9",
    "0", "0", ",", "1", "0", "0", "0", ",", "2", "0", "0">>

\* no account code
LineNoItem ==
  <<"3", "X", ",", "A", "l", "i", ",", ",", "9", "0", "0", ",", "5", "0",
    "0", ",", "1", "0", "0">>

\* a blank line
LineBlank ==
  <<" ", " ">>

HeaderPool == {HeaderSap, HeaderAlias, HeaderNoCnic, HeaderNoItem}

LinePool == {LineA1, LineA2, LineA3, LineB1, LineNoCnic, LineNoItem, LineBlank}

RECURSIVE SeqsUpTo(_, _)
SeqsUpTo(S, n) ==
  IF n = 0 THEN {<<>>}
  ELSE LET shorter == SeqsUpTo(S, n - 1)
       IN shorter \cup {Append(q, x) : q \in shorter, x \in S}

\* every text the file input can hand to handleMasterSync
Files == {<<h>> \o rows : h \in HeaderPool, rows \in SeqsUpTo(LinePool, MaxRows)}

\* a few of them, for the behaviours that mix imports with other operations
SmallFiles == {<<HeaderSap, LineA1, LineA2>>, <<HeaderAlias, LineA3, LineB1>>,
               <<HeaderNoCnic, LineA1>>}

\* the files of the additive imports that follow an import
MergeFiles == {<<HeaderSap, LineA3>>, <<HeaderSap, LineB1, LineNoItem>>,
               <<HeaderAlias, LineA1>>, <<HeaderSap, LineA2, LineA3>>}

(***************************************************************************)
(* Built-in seed data (MOCK_USERS, MOCK_FILES of ./data) and the inputs of *)
(* the pages that call into App.                                           *)
(***************************************************************************)
CnicA == <<"1", "2", "3", "4", "5", "-", "6", "7", "8", "9", "0", "1", "2", "-", "3">>

CnicAPlain == <<"1", "2", "3", "4", "5", "6", "7", "8", "9", "0", "1", "2", "3">>

CnicAdmin == <<"0", "0", "-", "1">>

CnicNone == <<"n", "/", "a">>

MOCK_USERS ==
  << [id |-> <<"admin-1">>, cnic |-> CnicAdmin, name |-> <<"Admin">>,
      email |-> <<"admin@din">>, phone |-> <<"-">>,
      role |-> "ADMIN", status |-> "Active", password |-> "admin123"],
     [id |-> <<"client-1">>, cnic |-> CnicA, name |-> <<"Ali">>,
      email |-> <<"ali@din">>, phone |-> <<"-">>,
      role |-> "CLIENT", status |-> "Active", password |-> "client123"] >>

MOCK_FILES ==
  << [fileNo |-> <<"P", "-", "0", "0", "9">>, plotValue |-> 5000,
      balance |-> 400, paymentReceived |-> 600,
      ownerName |-> <<"Ali">>, ownerCNIC |-> CnicA,
      transactions |-> << [seq |-> 0, transid |-> 1, 
                           shortname |-> <<"P", "-", "0", "0", "9">>,
                           doctotal |-> 5000, balduedeb |-> 400,
                           amount_paid |-> 600] >>] >>

\* what the sign-up form of the Login page passes to onRegister
signUp(cnic) ==
  [id |-> <<"user-">> \o cnic, cnic |-> cnic, name |-> <<"Ali">>,
   email |-> <<"ali@mail">>, phone |-> <<"0300">>,
   role |-> "CLIENT", status |-> "Pending", password |-> "chosen"]

SignUps == {signUp(c) : c \in {CnicA, CnicAPlain, CnicNone}}

\* the identity texts the Profile page can put into a member
ProfileCnics == {CnicAPlain, <<"-">>}

\* an older copy held by the remote mirror
CLOUD_USERS == << MOCK_USERS[1] >>

CLOUD_FILES == MOCK_FILES

(***************************************************************************)
(* State                                                                   *)
(***************************************************************************)
VARIABLES
  users,          \* useState users
  allFiles,       \* useState allFiles
  isLoading,      \* useState isLoading
  bootPc,         \* position of boot(): "local", "remote", "ready"
  effectPending,  \* the auto-save effect is scheduled
  mi,             \* the suspended handleMassImport: position and locals
  store,          \* IndexedDB object store 'registry' (keys users, files)
  cloudEnabled,   \* isCloudEnabled && supabase
  cloud,          \* remote tables profiles and property_files
  inflight,       \* remote upserts issued and not yet settled
  now,            \* Date.now(), as an offset
  alert,          \* the last alert() of the admin page
  op,             \* history: the last handler invoked
  nOps,           \* history: number of handler invocations
  lastText,       \* history: the text of the last file imported
  incoming,       \* history: the data of the last handleMassImport call
  lastReg,        \* history: the argument of the last handleRegister call
  bootStore,      \* history: the store as the last reload found it
  bootRead,       \* history: how the getItem calls of boot ended, until a
                  \* handler runs
  remoteFailed,   \* history: a remote upsert failed since the last mutation
  durable         \* history: the local write of the last mutation completed

vars == <<users, allFiles, isLoading, bootPc, effectPending, mi, store,
          cloudEnabled, cloud, inflight, now, alert, op, nOps, lastText,
          incoming, lastReg, bootStore, bootRead, remoteFailed, durable>>

Absent == [present |-> FALSE, val |-> <<>>]

Snapshot(v) == [present |-> TRUE, val |-> v]

EmptyStore == [users |-> Absent, files |-> Absent]

MiIdle == [pc |-> "idle", nUsers |-> <<>>, nFiles |-> <<>>]

NoAlert == [kind |-> "none", n |-> 0]

NoData == [users |-> <<>>, files |-> <<>>]

NoReg == signUp(<<>>)

Init ==
  /\ users = <<>>
  /\ allFiles = <<>>
  /\ isLoading = TRUE
  /\ bootPc = "local"
  /\ effectPending = FALSE
  /\ mi = MiIdle
  /\ store = EmptyStore
  /\ cloudEnabled \in BOOLEAN
  /\ cloud \in {[users |-> <<>>, files |-> <<>>],
                [users |-> CLOUD_USERS, files |-> CLOUD_FILES]}
  /\ (~cloudEnabled => cloud.users = <<>>)
  /\ inflight = <<>>
  /\ now = 0
  /\ alert = NoAlert
  /\ op = "none"
  /\ nOps = 0
  /\ lastText = <<>>
  /\ incoming = NoData
  /\ lastReg = NoReg
  /\ bootStore = EmptyStore
  /\ bootRead = "none"
  /\ remoteFailed = FALSE
  /\ durable = FALSE

(***************************************************************************)
(* Persistence Coordinator: boot                                           *)
(***************************************************************************)
\* u || MOCK_USERS
orSeed(snap, seed) == IF snap.present THEN snap.val ELSE seed

\* what the getItem calls of boot() give: the stored values ("ok"); null for
\* every key when getDB fails ("null"); a rejection when a request on the
\* object store fails, which getItem does not catch ("reject")
ReadOutcomes == {"ok", "null", "reject"}

\* AsyncStorage.getItem(key) when it resolves
getItem(snap, read) == IF read = "ok" THEN snap ELSE Absent

\* boot() from the four getItem to the test of isCloudEnabled; when
\* Promise.all rejects, boot goes to its catch and finally blocks
BootLocalHydrate(read) ==
  /\ bootPc = "local"
  /\ IF read = "reject"
     THEN /\ bootPc' = "ready"
          /\ isLoading' = FALSE
          /\ effectPending' = TRUE
          /\ UNCHANGED <<users, allFiles>>
     ELSE /\ users' = orSeed(getItem(store.users, read), MOCK_USERS)
          /\ allFiles' = orSeed(getItem(store.files, read), MOCK_FILES)
          /\ IF cloudEnabled
             THEN /\ bootPc' = "remote"
                  /\ UNCHANGED <<isLoading, effectPending>>
             ELSE /\ bootPc' = "ready"
                  /\ isLoading' = FALSE
                  /\ effectPending' = TRUE
  /\ bootRead' = read
  /\ UNCHANGED <<mi, store, cloudEnabled, cloud, inflight, now, alert, op,
                 nOps, lastText, incoming, lastReg, bootStore, remoteFailed,
                 durable>>

\* if (cUsers?.length) setUsers(cUsers)
orRemote(rows, local) == IF rows # <<>> THEN rows ELSE local

\* boot(): the two select('*') and the finally block; a select that fails
\* yields no data
BootRemoteRefresh(gotUsers, gotFiles) ==
  /\ bootPc = "remote"
  /\ users' = orRemote(IF gotUsers THEN cloud.users ELSE <<>>, users)
  /\ allFiles' = orRemote(IF gotFiles THEN cloud.files ELSE <<>>, allFiles)
  /\ bootPc' = "ready"
  /\ isLoading' = FALSE
  /\ effectPending' = TRUE
  /\ UNCHANGED <<mi, store, cloudEnabled, cloud, inflight, now, alert, op,
                 nOps, lastText, incoming, lastReg, bootStore, bootRead,
                 remoteFailed,
                 durable>>

(***************************************************************************)
(* Persistence Coordinator: writes                                         *)
(***************************************************************************)
\* the auto-save effect, with the puts of its setItem calls
AutoSave ==
  /\ effectPending
  /\ ~isLoading
  /\ store' = [users |-> Snapshot(users), files |-> Snapshot(allFiles)]
  /\ effectPending' = FALSE
  /\ UNCHANGED <<users, allFiles, isLoading, bootPc, mi, cloudEnabled, cloud,
                 inflight, now, alert, op, nOps, lastText, incoming, lastReg,
                 bootStore, bootRead, remoteFailed>>
  /\ durable' = IF op \in {"none", "restart", "reset"} THEN durable ELSE TRUE

\* the requests syncToCloud adds: none when the mirror is not configured
syncToCloud(queue, table, data) ==
  IF ~cloudEnabled THEN queue
  ELSE Append(queue, [table |-> table, data |-> data])

RowKey(table, row) == IF table = "users" THEN row.id ELSE row.fileNo

RECURSIVE upsertRows(_, _, _, _)
upsertRows(table, rows, data, k) ==
  IF k > Len(data) THEN rows
  ELSE LET hit == {i \in 1..Len(rows) :
                     RowKey(table, rows[i]) = RowKey(table, data[k])}
       IN upsertRows(table,
                     IF hit = {} THEN Append(rows, data[k])
                     ELSE [i \in 1..Len(rows) |->
                             IF i \in hit THEN data[k] ELSE rows[i]],
                     data, k + 1)

RemoveAt(q, i) == SubSeq(q, 1, i - 1) \o SubSeq(q, i + 1, Len(q))

\* supabase.from(dbTable).upsert(data) resolves; the requests settle in the
\* order of their issue
CloudUpsertOk ==
  /\ inflight # <<>>
  /\ cloud' = [cloud EXCEPT ![Head(inflight).table] =
                 upsertRows(Head(inflight).table, @, Head(inflight).data, 1)]
  /\ inflight' = Tail(inflight)
  /\ UNCHANGED <<users, allFiles, isLoading, bootPc, effectPending, mi, store,
                 cloudEnabled, now, alert, op, nOps, lastText, incoming,
                 lastReg, bootStore, bootRead, remoteFailed, durable>>

\* CloudUpsertFail that also drops the local write still scheduled
CloudUpsertFailBlocksSave ==
  /\ inflight # <<>>
  /\ inflight' = Tail(inflight)
  /\ remoteFailed' = TRUE
  /\ effectPending' = FALSE
  /\ UNCHANGED <<users, allFiles, isLoading, bootPc, mi, store, cloudEnabled,
                 cloud, now, alert, op, nOps, lastText, incoming, lastReg,
                 bootStore, bootRead, durable>>

\* it rejects: console.error("Cloud Sync Failed:", err)
CloudUpsertFail ==
  /\ inflight # <<>>
  /\ inflight' = Tail(inflight)
  /\ remoteFailed' = TRUE
  /\ UNCHANGED <<users, allFiles, isLoading, bootPc, effectPending, mi, store,
                 cloudEnabled, cloud, now, alert, op, nOps, lastText,
                 incoming, lastReg, bootStore, bootRead, durable>>

(***************************************************************************)
(* Reconciliation Engine                                                   *)
(***************************************************************************)
\* the key of a Map entry: u.cnic.replace(/[^0-9X]/g, '') or f.fileNo
mergeKey(table, row) ==
  IF table = "users" THEN normCNICof(row.cnic) ELSE row.fileNo

RECURSIVE mapSetAll(_, _, _, _)
mapSetAll(m, table, rows, k) ==
  IF k > Len(rows) THEN m
  ELSE mapSetAll(mapSet(m, mergeKey(table, rows[k]), rows[k]),
                 table, rows, k + 1)

\* additiveMerge that starts from an empty Map: the live rows are lost
additiveMergeDropsLive(table, live, inc) ==
  mapValues(mapSetAll(<<>>, table, inc, 1))

\* new Map(live.map(...)), then incoming.forEach(x => map.set(...)), then
\* Array.from(map.values())
additiveMerge(table, live, inc) ==
  mapValues(mapSetAll(mapSetAll(<<>>, table, live, 1), table, inc, 1))

\* nUsers / nFiles of handleMassImport
reconcile(table, live, inc, isDestructive) ==
  IF isDestructive THEN inc ELSE additiveMerge(table, live, inc)

\* handleMassImport up to its first await
massImport(data, isDestructive) ==
  LET nUsers == reconcile("users", users, data.users, isDestructive)
      nFiles == reconcile("files", allFiles, data.files, isDestructive)
  IN /\ users' = nUsers
     /\ allFiles' = nFiles
     /\ effectPending' = TRUE
     /\ mi' = [pc |-> "users", nUsers |-> nUsers, nFiles |-> nFiles]
     /\ incoming' = data

\* await AsyncStorage.setItem('users', nUsers)
MiWriteUsers ==
  /\ mi.pc = "users"
  /\ store' = [store EXCEPT !.users = Snapshot(mi.nUsers)]
  /\ mi' = [mi EXCEPT !.pc = "files"]
  /\ UNCHANGED <<users, allFiles, isLoading, bootPc, effectPending,
                 cloudEnabled, cloud, inflight, now, alert, op, nOps,
                 lastText, incoming, lastReg, bootStore, bootRead,
                 remoteFailed, durable>>

\* await AsyncStorage.setItem('files', nFiles)
MiWriteFiles ==
  /\ mi.pc = "files"
  /\ store' = [store EXCEPT !.files = Snapshot(mi.nFiles)]
  /\ mi' = [mi EXCEPT !.pc = "sync"]
  /\ UNCHANGED <<users, allFiles, isLoading, bootPc, effectPending,
                 cloudEnabled, cloud, inflight, now, alert, op, nOps,
                 lastText, incoming, lastReg, bootStore, bootRead,
                 remoteFailed>>
  /\ durable' = TRUE

\* the two syncToCloud calls that end handleMassImport
MiSync ==
  /\ mi.pc = "sync"
  /\ inflight' = syncToCloud(syncToCloud(inflight, "users", mi.nUsers),
                             "files", mi.nFiles)
  /\ mi' = MiIdle
  /\ UNCHANGED <<users, allFiles, isLoading, bootPc, effectPending, store,
                 cloudEnabled, cloud, now, alert, op, nOps, lastText,
                 incoming, lastReg, bootStore, bootRead, remoteFailed, durable>>

\* a handler of a rendered page can run: the page is rendered, React has
\* flushed the effects of the last render, no import is suspended
CanInvoke ==
  ~isLoading /\ ~effectPending /\ mi.pc = "idle" /\ nOps < MaxOps

\* the clock when a handler runs: it has not gone back
Later(t) == t \in now..MaxClock /\ t <= now + 1

\* reader.onload of handleMasterSync on a file of this text, read when
\* Date.now() is t
handleMasterSync(text, t) ==
  /\ CanInvoke
  /\ Later(t)
  /\ now' = t
  /\ LET r == parseRegistry(text, t)
     IN IF r.ok
        THEN /\ massImport([users |-> r.users, files |-> r.files], TRUE)
             /\ alert' = [kind |-> "success", n |-> Len(r.files)]
             /\ remoteFailed' = FALSE
             /\ durable' = FALSE
        ELSE /\ alert' = [kind |-> "format", n |-> 0]
             /\ incoming' = NoData
             /\ UNCHANGED <<users, allFiles, effectPending, mi, remoteFailed,
                            durable>>
  /\ op' = "import"
  /\ nOps' = nOps + 1
  /\ lastText' = text
  /\ lastReg' = NoReg
  /\ UNCHANGED <<isLoading, bootPc, store, cloudEnabled, cloud, inflight,
                 bootStore>>
  /\ bootRead' = "none"

\* onImportFullDatabase(data, false) with an entity set built from a text
handleMassImportAdditive(text, t) ==
  /\ CanInvoke
  /\ Later(t)
  /\ now' = t
  /\ LET r == parseRegistry(text, t)
     IN /\ r.ok
        /\ massImport([users |-> r.users, files |-> r.files], FALSE)
  /\ op' = "merge"
  /\ nOps' = nOps + 1
  /\ lastText' = text
  /\ lastReg' = NoReg
  /\ remoteFailed' = FALSE
  /\ UNCHANGED <<isLoading, bootPc, store, cloudEnabled, cloud, inflight,
                 alert, bootStore>>
  /\ bootRead' = "none"
  /\ durable' = FALSE

(***************************************************************************)
(* Registration, profile and property updates                              *)
(***************************************************************************)
\* { ...existing, ...u, status: 'Active' }
bridge(existing, u) ==
  [f \in DOMAIN existing \cup DOMAIN u |->
     IF f = "status" THEN "Active"
     ELSE IF f \in DOMAIN u THEN u[f] ELSE existing[f]]

\* users.find(existing => normalized cnic equal)
registerExists(list, u) ==
  \E i \in 1..Len(list) : normCNICof(list[i].cnic) = normCNICof(u.cnic)

\* the test of users.map in the Identity Bridge branch
bridgeHits(existing, u) == existing.cnic = u.cnic

\* newUsers of handleRegister
registerUsers(list, u) ==
  IF registerExists(list, u)
  THEN [i \in 1..Len(list) |->
          IF bridgeHits(list[i], u) THEN bridge(list[i], u) ELSE list[i]]
  ELSE Append(list, u)

\* handleRegister(u), with handleUpdateUsers(newUsers)
handleRegister(u) ==
  /\ CanInvoke
  /\ users' = registerUsers(users, u)
  /\ inflight' = syncToCloud(inflight, "users", registerUsers(users, u))
  /\ effectPending' = TRUE
  /\ remoteFailed' = FALSE
  /\ lastReg' = u
  /\ lastText' = <<>>
  /\ incoming' = NoData
  /\ op' = "register"
  /\ nOps' = nOps + 1
  /\ UNCHANGED <<allFiles, isLoading, bootPc, mi, store, cloudEnabled, cloud,
                 now, alert, bootStore>>
  /\ bootRead' = "none"
  /\ durable' = FALSE

\* the lists the Assets page passes to setAllFiles: an account removed or
\* revalued
propertyEdits(files) ==
  {RemoveAt(files, i) : i \in 1..Len(files)}
    \cup {[files EXCEPT ![i].plotValue = 7000] : i \in 1..Len(files)}

\* handleUpdateFiles(f)
handleUpdateFiles(f) ==
  /\ CanInvoke
  /\ allFiles' = f
  /\ inflight' = syncToCloud(inflight, "files", f)
  /\ effectPending' = TRUE
  /\ remoteFailed' = FALSE
  /\ op' = "files"
  /\ nOps' = nOps + 1
  /\ lastText' = <<>>
  /\ incoming' = NoData
  /\ lastReg' = NoReg
  /\ UNCHANGED <<users, isLoading, bootPc, mi, store, cloudEnabled, cloud,
                 now, alert, bootStore>>
  /\ bootRead' = "none"
  /\ durable' = FALSE

\* Profile onUpdate(u) where the signed-in member is users[i] and u is that
\* member with another identity text
profileUpdate(i, cnic) ==
  /\ CanInvoke
  /\ i \in 1..Len(users)
  /\ LET u == [users[i] EXCEPT !.cnic = cnic]
     IN users' = [j \in 1..Len(users) |->
                    IF users[j].id = u.id THEN u ELSE users[j]]
  /\ effectPending' = TRUE
  /\ remoteFailed' = FALSE
  /\ op' = "profile"
  /\ nOps' = nOps + 1
  /\ lastText' = <<>>
  /\ incoming' = NoData
  /\ lastReg' = NoReg
  /\ UNCHANGED <<allFiles, isLoading, bootPc, mi, store, cloudEnabled, cloud,
                 inflight, now, alert, bootStore>>
  /\ bootRead' = "none"
  /\ durable' = FALSE

(***************************************************************************)
(* Reload and reset                                                        *)
(***************************************************************************)
\* the page is loaded again: component state starts over, what was pending
\* in the old page is gone
reload ==
  /\ users' = <<>>
  /\ allFiles' = <<>>
  /\ isLoading' = TRUE
  /\ bootPc' = "local"
  /\ effectPending' = FALSE
  /\ mi' = MiIdle
  /\ inflight' = <<>>
  /\ alert' = NoAlert
  /\ lastText' = <<>>
  /\ incoming' = NoData
  /\ lastReg' = NoReg
  /\ bootRead' = "none"

\* window.location.reload() (Re-verify Node Link, or the browser)
Restart ==
  /\ nOps < MaxOps
  /\ reload
  /\ bootStore' = store
  /\ op' = "restart"
  /\ nOps' = nOps + 1
  /\ UNCHANGED <<store, cloudEnabled, cloud, now, remoteFailed, durable>>

\* AsyncStorage.clear(), not awaited: its transaction runs only if the old
\* page lives long enough (cleared)
clearStore(cleared) == IF cleared THEN EmptyStore ELSE store

\* onResetDatabase: AsyncStorage.clear(); window.location.reload()
ResetDatabase(cleared) ==
  /\ CanInvoke
  /\ store' = clearStore(cleared)
  /\ reload
  /\ bootStore' = store'
  /\ op' = "reset"
  /\ nOps' = nOps + 1
  /\ UNCHANGED <<cloudEnabled, cloud, now, remoteFailed>>
  /\ durable' = FALSE

(***************************************************************************)
(* Specifications                                                          *)
(***************************************************************************)
Next ==
  \/ \E read \in ReadOutcomes : BootLocalHydrate(read)
  \/ \E gotUsers, gotFiles \in BOOLEAN : BootRemoteRefresh(gotUsers, gotFiles)
  \/ AutoSave
  \/ CloudUpsertOk
  \/ CloudUpsertFail
  \/ MiWriteUsers
  \/ MiWriteFiles
  \/ MiSync
  \/ \E text \in SmallFiles : handleMasterSync(text, now)
  \/ \E text \in SmallFiles : handleMassImportAdditive(text, now)
  \/ \E u \in SignUps : handleRegister(u)
  \/ \E f \in propertyEdits(allFiles) : handleUpdateFiles(f)
  \/ \E i \in 1..Len(users), c \in ProfileCnics : profileUpdate(i, c)
  \/ Restart
  \/ \E cleared \in BOOLEAN : ResetDatabase(cleared)

\* the whole life of the page, on a few files and with the clock at rest
Spec == Init /\ [][Next]_vars

\* the files an import is tried on: every file first, then the same file
\* once more
ImportChoices ==
  IF nOps = 0 THEN Files
  ELSE IF nOps = 1 /\ op = "import" THEN {lastText} ELSE {}

InitImport == Init /\ ~cloudEnabled

NextImport ==
  \/ \E read \in ReadOutcomes : BootLocalHydrate(read)
  \/ AutoSave
  \/ MiWriteUsers
  \/ MiWriteFiles
  \/ MiSync
  \/ \E text \in ImportChoices, t \in 0..MaxClock : handleMasterSync(text, t)
  \/ \E text \in MergeFiles, t \in 0..MaxClock :
       nOps = 1 /\ handleMassImportAdditive(text, t)

\* imports of every file of the model while the clock runs, without a mirror
SpecImport == InitImport /\ [][NextImport]_vars

(***************************************************************************)
(* Properties                                                              *)
(***************************************************************************)
\* the step is an invocation of the handler called name
Invokes(name) == nOps' = nOps + 1 /\ op' = name

\* the identity and the account code a data line carries under a header
lineCnic(normH, line) == normCNICof(col(normH, parseCSVLine(line), CnicNames))

lineItem(normH, line) == col(normH, parseCSVLine(line), ItemNames)

linePaid(normH, line) == parseVal(col(normH, parseCSVLine(line), PaidNames))

lineBal(normH, line) == parseVal(col(normH, parseCSVLine(line), BalNames))

\* the file has fewer than two non-empty lines, or its header row resolves
\* no identity column or no account-code column
Malformed(text) ==
  LET lines == nonEmptyLines(text)
  IN \/ Len(lines) < 2
     \/ getIdx(normHeaders(lines[1]), CnicNames) = 0
     \/ getIdx(normHeaders(lines[1]), ItemNames) = 0

\* the positions, in file order, of the data lines that carry both keys
\* (and the account code `code`, unless code is the empty text)
RECURSIVE keyedFrom(_, _, _, _)
keyedFrom(normH, lines, code, k) ==
  IF k > Len(lines) THEN <<>>
  ELSE IF /\ lineCnic(normH, lines[k]) # <<>>
          /\ lineItem(normH, lines[k]) # <<>>
          /\ code \in {<<>>, lineItem(normH, lines[k])}
       THEN <<k>> \o keyedFrom(normH, lines, code, k + 1)
  ELSE keyedFrom(normH, lines, code, k + 1)

RECURSIVE SumOver(_, _, _, _)
SumOver(normH, lines, ks, paid) ==
  IF ks = <<>> THEN 0
  ELSE (IF paid THEN linePaid(normH, lines[Head(ks)])
        ELSE lineBal(normH, lines[Head(ks)]))
       + SumOver(normH, lines, Tail(ks), paid)

\* C1: a file with fewer than two non-empty lines, or whose header row does
\* not resolve the identity and the account-code columns, is rejected with a
\* format error and the member and account collections stay as they were
\* (handleMassImport is not started).
C1_MalformedRejected ==
  [][(Invokes("import") /\ Malformed(lastText'))
       => /\ alert'.kind = "format"
          /\ users' = users
          /\ allFiles' = allFiles
          /\ mi' = mi]_vars

\* C2: once the local write of a mutation has completed, the mutated
\* collections are what the Registry and the local store hold after the next
\* boot, also when the remote upsert of that mutation failed and the mirror
\* holds an older copy.
C2_AcceptedSurvivesBoot ==
  (op = "restart" /\ bootPc = "ready" /\ bootRead = "ok" /\ durable
     /\ remoteFailed)
    => /\ users = bootStore.users.val
       /\ allFiles = bootStore.files.val
       /\ store.users = bootStore.users
       /\ store.files = bootStore.files

\* the postcondition of a registration of u on the member list `list`
RegisterMerged(list, u, out) ==
  IF \E i \in 1..Len(list) : normCNICof(list[i].cnic) = normCNICof(u.cnic)
  THEN /\ Len(out) = Len(list)
       /\ \A i \in 1..Len(list) :
            normCNICof(list[i].cnic) = normCNICof(u.cnic)
              => out[i].password = u.password /\ out[i].status = "Active"
  ELSE out = Append(list, u)

\* C3: a registration whose identity normalizes to that of an existing
\* member puts its credential and the status Active into that member and
\* appends nothing, whatever the raw texts; one that matches no member
\* appends exactly one member.
C3_RegisterByNormalizedIdentity ==
  [][Invokes("register") => RegisterMerged(users, lastReg', users')]_vars

\* C4: when a remote upsert of a collection is issued, the local store
\* already holds that collection.
C4_LocalWriteBeforeUpsert ==
  [][Len(inflight') > Len(inflight)
       => \A j \in (Len(inflight) + 1)..Len(inflight') :
            store[inflight'[j].table] = Snapshot(inflight'[j].data)]_vars

\* C5: without a mirror, the boot that follows a reset finds no stored
\* snapshot and hydrates the Registry from the seed data.
C5_ResetReseeds ==
  (op = "reset" /\ bootPc = "ready" /\ bootRead = "ok" /\ ~cloudEnabled)
    => /\ ~bootStore.users.present
       /\ ~bootStore.files.present
       /\ users = MOCK_USERS
       /\ allFiles = MOCK_FILES

\* the state right after handleMasterSync has built and handed over the
\* entity set of a well-formed file
JustBuilt == op = "import" /\ mi.pc = "users" /\ ~Malformed(lastText)

\* the entity set `data` holds one member per normalized identity and one
\* account per account code of the keyed lines of the text, and each account
\* as many transactions as keyed lines carry its code
ExactlyTheKeyed(text, data) ==
  LET lines == nonEmptyLines(text)
      normH == normHeaders(lines[1])
      keyed == Range(keyedFrom(normH, lines, <<>>, 2))
      cnics == {lineCnic(normH, lines[k]) : k \in keyed}
      items == {lineItem(normH, lines[k]) : k \in keyed}
  IN /\ Len(data.users) = Cardinality(cnics)
     /\ {normCNICof(u.cnic) : u \in Range(data.users)} = cnics
     /\ Len(data.files) = Cardinality(items)
     /\ {f.fileNo : f \in Range(data.files)} = items
     /\ \A f \in Range(data.files) :
          Len(f.transactions)
            = Cardinality({k \in keyed : lineItem(normH, lines[k]) = f.fileNo})

\* C6: the Entity Builder's output for a file whose header resolves holds
\* exactly one Member per distinct normalized identity and one account per
\* distinct account code of the lines carrying both keys, with one
\* transaction per such line; lines missing a key contribute nothing.
C6_OnePerKey == JustBuilt => ExactlyTheKeyed(lastText, incoming)

C6_Witness ==
  /\ JustBuilt
  /\ lastText = <<HeaderAlias, LineNoItem, LineA3>>
  /\ Len(incoming.users) = 1
  /\ Len(incoming.files) = 1

\* every account of `data` has the sums of the paid and the balance-due
\* amounts of its lines, and its transactions follow those lines in order
SumsOfTheKeyed(text, data) ==
  LET lines == nonEmptyLines(text)
      normH == normHeaders(lines[1])
  IN \A f \in Range(data.files) :
       LET ks == keyedFrom(normH, lines, f.fileNo, 2)
       IN /\ f.paymentReceived = SumOver(normH, lines, ks, TRUE)
          /\ f.balance = SumOver(normH, lines, ks, FALSE)
          /\ Len(f.transactions) = Len(ks)
          /\ \A j \in 1..Len(ks) :
               /\ f.transactions[j].seq = ks[j] - 2
               /\ f.transactions[j].amount_paid = linePaid(normH, lines[ks[j]])
               /\ f.transactions[j].balduedeb = lineBal(normH, lines[ks[j]])

\* C7: after an import pass each account's paymentReceived and balance are
\* the sums of the normalized paid and balance-due amounts of its lines and
\* its transactions are in file order.
C7_AggregatesAreSums == JustBuilt => SumsOfTheKeyed(lastText, incoming)

\* the scenario of the specification: 1000 + 500 paid, 200 + 100 due
C7_Witness ==
  /\ JustBuilt
  /\ lastText = <<HeaderSap, LineA1, LineA2>>
  /\ Len(users) = 1
  /\ Len(allFiles) = 1
  /\ allFiles[1].fileNo = <<"P", "-", "0", "0", "1">>
  /\ allFiles[1].paymentReceived = 1500
  /\ allFiles[1].balance = 300
  /\ Len(allFiles[1].transactions) = 2
  /\ allFiles[1].transactions[1].amount_paid = 1000
  /\ allFiles[1].transactions[2].amount_paid = 500

\* the step imports again the file the last handler imported
ReImports == op = "import" /\ Invokes("import") /\ lastText' = lastText

\* C8, as stated: importing the same file a second time leaves the member
\* and the account collections, with every field of every transaction, equal.
C8_ReimportIdentical ==
  [][ReImports => users' = users /\ allFiles' = allFiles]_vars

withoutTransid(files) ==
  [i \in 1..Len(files) |->
     [files[i] EXCEPT !.transactions =
        [j \in 1..Len(@) |-> [@[j] EXCEPT !.transid = 0]]]]

\* C8, amended: importing the same file a second time leaves the member
\* collection and the account collection equal but for the transid of the
\* transactions, which is the clock of the import plus the line's position.
C8_ReimportIdenticalButTransid ==
  [][ReImports
       => /\ users' = users
          /\ withoutTransid(allFiles') = withoutTransid(allFiles)
          /\ alert'.kind = "success"
               => \A i \in 1..Len(allFiles') :
                    \A j \in 1..Len(allFiles'[i].transactions) :
                      allFiles'[i].transactions[j].transid
                        = now' + allFiles'[i].transactions[j].seq]_vars

C8_Witness ==
  /\ op = "import"
  /\ nOps = 2
  /\ now = 1
  /\ lastText = <<HeaderSap, LineA1, LineA2>>
  /\ Len(allFiles) = 1
  /\ allFiles[1].transactions[1].transid = 1

\* the postcondition of an additive merge of the accounts `inc` into `live`
AccountsMerged(live, inc, out) ==
  LET liveCodes == {f.fileNo : f \in Range(live)}
      incCodes == {f.fileNo : f \in Range(inc)}
  IN /\ incCodes \cap liveCodes = {} => out = live \o inc
     /\ Len(out) = Len(live) + Cardinality(incCodes \ liveCodes)
     /\ \A i \in 1..Len(live) :
          IF live[i].fileNo \in incCodes
          THEN out[i] \in Range(inc) /\ out[i].fileNo = live[i].fileNo
          ELSE out[i] = live[i]
     /\ Range(inc) \subseteq Range(out)

\* C9: an additive import whose account codes are all new appends those
\* accounts and leaves every prior account unchanged; an incoming account
\* whose code exists replaces the existing account as a whole.
C9_AdditiveAccounts ==
  [][Invokes("merge") => AccountsMerged(allFiles, incoming'.files, allFiles')]_vars

C9_Witness ==
  /\ op = "merge"
  /\ lastText = <<HeaderSap, LineA3>>
  /\ Len(allFiles) = 2
  /\ allFiles[1].fileNo = <<"P", "-", "0", "0", "1">>
  /\ Len(allFiles[1].transactions) = 2
  /\ allFiles[2].fileNo = <<"P", "-", "0", "0", "2">>
  /\ allFiles[2].paymentReceived = 500

\* C10: an additive merge keeps every existing member that no incoming
\* member replaces by normalized identity.
C10_AdditiveKeepsMembers ==
  [][Invokes("merge")
       => \A i \in 1..Len(users) :
            \/ \E u \in Range(incoming'.users) :
                 normCNICof(u.cnic) = normCNICof(users[i].cnic)
            \/ users[i] \in Range(users')]_vars

\* the fields of a member that come from the SAP export
SapFields == {"id", "cnic", "name", "email", "phone", "role"}

\* the members all come from the export: the last operation was an import
\* that succeeded and has been written
AllImported ==
  op = "import" /\ alert.kind = "success" /\ mi.pc = "idle" /\ users # <<>>

\* C11: a registration that matches an imported member changes at most the
\* credential and the activation status of that member: the identifier,
\* identity number, name, email, phone and role of every member stay as
\* they were, no member is added, and the members it does not match are
\* unchanged.
C11_RegisterKeepsSapFields ==
  [][(AllImported /\ Invokes("register") /\ registerExists(users, lastReg'))
       => /\ Len(users') = Len(users)
          /\ \A i \in 1..Len(users) :
               /\ \A f \in SapFields : users'[i][f] = users[i][f]
               /\ normCNICof(users[i].cnic) # normCNICof(lastReg'.cnic)
                    => users'[i] = users[i]]_vars

\* the step changes the member or the account collection through a handler
Mutates ==
  /\ nOps' = nOps + 1
  /\ op' \in {"import", "merge", "register", "files", "profile"}
  /\ (users' # users \/ allFiles' # allFiles)

\* after the step the collection is on its way to the mirror: an upsert of
\* it has been issued, or the import that will issue it is suspended on its
\* local writes
UpsertAttempted(table, rows) ==
  \/ \E j \in (Len(inflight) + 1)..Len(inflight') :
       inflight'[j] = [table |-> table, data |-> rows]
  \/ /\ mi'.pc = "users"
     /\ (IF table = "users" THEN mi'.nUsers ELSE mi'.nFiles) = rows

\* C13: every mutation of the member or account collection (import,
\* registration, update of users or files, profile update) schedules the
\* local write of the new collections and, with a mirror configured,
\* attempts the remote upsert of each collection it changed.
C13_MutationFullyPersisted ==
  [][Mutates
       => /\ effectPending'
          /\ (cloudEnabled /\ users' # users)
               => UpsertAttempted("users", users')
          /\ (cloudEnabled /\ allFiles' # allFiles)
               => UpsertAttempted("files", allFiles')]_vars

\* the step on which boot() ends
ReachesReady == bootPc # "ready" /\ bootPc' = "ready"

\* what a collection is to be when boot ends: the remote copy if a mirror is
\* configured and holds rows, else the stored snapshot, else the seed
BootResult(remote, snap, seed) ==
  IF cloudEnabled /\ remote # <<>> THEN remote
  ELSE IF snap.present THEN snap.val ELSE seed

\* C14: when boot reaches Ready, the member and the account collection are
\* each the remote copy if a mirror is configured and its copy is not empty,
\* else the last local snapshot if there is one, else the seed data; before
\* the remote copy is looked at, the Registry holds the local snapshot or
\* the seed.
C14_BootPrecedence ==
  [][/\ ReachesReady
          => /\ users' = BootResult(cloud.users, store.users, MOCK_USERS)
             /\ allFiles' = BootResult(cloud.files, store.files, MOCK_FILES)
     /\ (bootPc = "local" /\ bootPc' = "remote")
          => /\ users' = orSeed(store.users, MOCK_USERS)
             /\ allFiles' = orSeed(store.files, MOCK_FILES)]_vars

\* no handler has run since the page was loaded
SinceLoad == op \in {"none", "restart", "reset"}

\* the collections boot can hydrate the Registry with
HydrationSources(remote, snap, seed) ==
  {seed} \cup (IF snap.present THEN {snap.val} ELSE {})
         \cup (IF cloudEnabled /\ remote # <<>> THEN {remote} ELSE {})

\* the step is the auto-save write that follows boot
FirstSave ==
  SinceLoad /\ effectPending /\ ~effectPending' /\ ~isLoading' /\ store' # store

\* C15: the local store is written only once loading has ended, and the
\* write that follows boot stores collections that were hydrated from the
\* local snapshot, the seed data or the remote copy, never the empty
\* collections the Registry starts with, on every boot path.
C15_NeverSavesInitialEmpty ==
  [][/\ store' # store => ~isLoading
     /\ FirstSave
          => /\ store'.users.val
                  \in HydrationSources(cloud.users, bootStore.users, MOCK_USERS)
             /\ store'.files.val
                  \in HydrationSources(cloud.files, bootStore.files, MOCK_FILES)]_vars

\* a remote upsert settles and the mirror has not taken it
SettlesWithoutEffect ==
  Len(inflight') < Len(inflight) /\ nOps' = nOps /\ cloud' = cloud

\* nothing is left to write locally
Quiescent == ~isLoading /\ ~effectPending /\ mi.pc = "idle"

\* the local store holds the Registry
StoreMirrorsRegistry ==
  store = [users |-> Snapshot(users), files |-> Snapshot(allFiles)]

\* C12: a remote upsert that fails leaves the Registry and the local store
\* as they are and leaves the local writes still scheduled in place; and
\* whenever the local writes of the mutations made so far have run, the
\* local store holds the Registry, whatever happened to earlier upserts.
C12_RemoteFailureIsolated ==
  [][/\ SettlesWithoutEffect
          => /\ users' = users
             /\ allFiles' = allFiles
             /\ store' = store
             /\ effectPending' = effectPending
             /\ mi' = mi
     /\ Quiescent' => StoreMirrorsRegistry']_vars

\* a registration whose upsert failed, then an account revalued whose
\* upsert succeeded: the mirror lacks the member and holds the new value,
\* the Registry and the local store hold both
C12_Witness ==
  /\ cloudEnabled
  /\ nOps = 2
  /\ op = "files"
  /\ Quiescent
  /\ inflight = <<>>
  /\ ~remoteFailed
  /\ signUp(CnicNone) \in Range(users)
  /\ signUp(CnicNone) \notin Range(cloud.users)
  /\ allFiles # <<>>
  /\ allFiles[1].plotValue = 7000
  /\ cloud.files = allFiles
  /\ StoreMirrorsRegistry

====
